---- MODULE Spec2Model ----
(***************************************************************************)
(* Model of src/src/verify.ts: the `verify` command of the skills CLI.     *)
(*   checkSymlinkIntegrity  (verify.ts:80-115)                              *)
(*   verifySkills           (verify.ts:117-267)                             *)
(*   runVerify              (verify.ts:429-486)                             *)
(* Paths are sequences of path segments; an optional field that is not     *)
(* set holds the value `undefined`.                                         *)
(***************************************************************************)
EXTENDS Integers, Sequences, FiniteSets, TLC

VARIABLES
  pc,              \* position of the run: see the actions
  optGlobal,       \* options.global of runVerify / verifySkills
  optAgent,        \* options.agent of runVerify: [given, list]
  lockEntries,     \* Object.entries(lockFile.skills), in enumeration order
  installedSkills, \* what listInstalledSkills returns, in order
  detectedAgents,  \* what detectInstalledAgents returns
  skillMd,         \* canonical path -> does parseSkillMd return a descriptor
  folderHash,      \* canonical path -> what computeSkillFolderHash yields ("throw": it throws)
  fs,              \* link path -> directory entry seen by lstat / readlink
  agentFilter,     \* agentFilter handed to verifySkills
  agentsToCheck,   \* verify.ts:156
  installedMap,    \* the Map of verify.ts:149, as a list of <<name, skill>> in insertion order
  lockIdx,         \* number of lock entries the first loop has handled
  untrackedIdx,    \* number of map entries the second loop has handled
  results,         \* results of verifySkills
  counts,          \* counts of verifySkills
  exitCode,        \* exit code of the process, read once pc = "exited"
  symArgs,         \* arguments of a direct call of checkSymlinkIntegrity
  symResult        \* what that call returned

vars == <<pc, optGlobal, optAgent, lockEntries, installedSkills, detectedAgents,
          skillMd, folderHash, fs, agentFilter, agentsToCheck, installedMap,
          lockIdx, untrackedIdx, results, counts, exitCode, symArgs, symResult>>

inputVars == <<optGlobal, optAgent, lockEntries, installedSkills, detectedAgents,
               skillMd, folderHash>>

envVars == <<inputVars, fs>>

undefined == "undefined"

(***************************************************************************)
(* Bounds and the small universes the inputs are drawn from.               *)
(***************************************************************************)
MaxNames == 2

\* Skill names. "B" sorts before "a" by code unit and after it by locale.
NamePool == <<"a", "B", "b", "A">>

Names == {NamePool[i] : i \in 1..MaxNames}

\* Agent ids: "U" keeps its skills in the canonical store itself, "A" and "B"
\* have a directory of their own.
Agents == {"U", "A", "B"}

\* Object.keys(agents), verify.ts:436
validAgents == <<"U", "A", "B">>

Range(s) == {s[i] : i \in DOMAIN s}

RECURSIVE Reverse(_)
Reverse(s) == IF s = <<>> THEN <<>> ELSE Reverse(Tail(s)) \o <<Head(s)>>

(***************************************************************************)
(* node:path on segment lists.                                             *)
(***************************************************************************)
cwd == <<"proj">>

homedir == <<"home">>

join(dir, name) == dir \o <<name>>

dirname(p) == IF p = <<>> THEN <<>> ELSE SubSeq(p, 1, Len(p) - 1)

\* path.resolve's normalisation: "." is dropped, ".." removes the segment before it
RECURSIVE normalize(_, _)
normalize(done, rest) ==
  IF rest = <<>> THEN done
  ELSE IF Head(rest) = "." THEN normalize(done, Tail(rest))
  ELSE IF Head(rest) = ".." THEN normalize(dirname(done), Tail(rest))
  ELSE normalize(done \o <<Head(rest)>>, Tail(rest))

\* path.resolve(from, target): an absolute target stands alone, a relative one
\* is taken from `from`
resolve(from, target) ==
  IF target.abs THEN normalize(<<>>, target.segs)
  ELSE normalize(from, target.segs)

(***************************************************************************)
(* installer.ts (not part of the sources at hand): directory layout.       *)
(***************************************************************************)
getCanonicalSkillsDir(global, dir) ==
  (IF global THEN homedir ELSE dir) \o <<".agents", "skills">>

getAgentBaseDir(agentType, global, dir) ==
  IF agentType = "U" THEN getCanonicalSkillsDir(global, dir)
  ELSE IF agentType = "A" THEN (IF global THEN homedir ELSE dir) \o <<".a", "skills">>
  ELSE (IF global THEN homedir ELSE dir) \o <<".b", "skills">>

(***************************************************************************)
(* Directory entries.                                                      *)
(***************************************************************************)
NoTarget == [abs |-> FALSE, segs |-> <<>>]

Absent == [kind |-> "absent", target |-> NoTarget]

Dir == [kind |-> "dir", target |-> NoTarget]

File == [kind |-> "file", target |-> NoTarget]

Symlink(t) == [kind |-> "symlink", target |-> t]

\* lstat(path): the entry, Absent standing for the ENOENT rejection
lstat(path) == IF path \in DOMAIN fs THEN fs[path] ELSE Absent

(***************************************************************************)
(* checkSymlinkIntegrity, verify.ts:80-115.                                *)
(***************************************************************************)
\* A mutant: the agent that lives in the canonical store is not skipped.
checkAgentNoSkip(agentType, skillName, canonicalPath, global) ==
  LET agentDir == getAgentBaseDir(agentType, global, cwd)
      skillLink == join(agentDir, skillName)
      stats == lstat(skillLink)
  IN IF stats.kind = "symlink"
        /\ resolve(dirname(skillLink), stats.target) # canonicalPath
     THEN <<[agent |-> agentType, link |-> skillLink]>>
     ELSE <<>>

\* One iteration of the loop of verify.ts:89-112: what it pushes.
checkAgent(agentType, skillName, canonicalPath, global) ==
  LET agentDir == getAgentBaseDir(agentType, global, cwd)
      skillLink == join(agentDir, skillName)
      stats == lstat(skillLink)
  IN IF agentDir = getCanonicalSkillsDir(global, cwd) THEN <<>>
     ELSE IF stats.kind = "absent" THEN <<>>
     ELSE IF stats.kind = "symlink"
        THEN (IF resolve(dirname(skillLink), stats.target) # canonicalPath
              THEN <<[agent |-> agentType, link |-> skillLink]>>
              ELSE <<>>)
     ELSE <<>>

RECURSIVE checkSymlinkIntegrity(_, _, _, _)
checkSymlinkIntegrity(skillName, canonicalPath, toCheck, global) ==
  IF toCheck = <<>> THEN <<>>
  ELSE checkAgent(Head(toCheck), skillName, canonicalPath, global)
       \o checkSymlinkIntegrity(skillName, canonicalPath, Tail(toCheck), global)

\* A mutant: a link found broken is removed on the spot.
fsUnlinkBroken(f, broken) ==
  [p \in DOMAIN f |->
     IF \E i \in DOMAIN broken : broken[i].link = p THEN Absent ELSE f[p]]

\* The file system after the links of one skill were inspected and `broken`
\* was found: lstat and readlink (verify.ts:99, 102) only read, and nothing is
\* done with a finding but pushing it (105).
fsAfterCheck(f, broken) == f

(***************************************************************************)
(* The Map of verify.ts:149, a list of [name, skill] in insertion order.   *)
(***************************************************************************)
mapHas(m, k) == \E i \in DOMAIN m : m[i].name = k

mapGet(m, k) == m[CHOOSE i \in DOMAIN m : m[i].name = k].skill

\* Map.prototype.set: an existing key keeps its place and takes the new value
mapSet(m, k, v) ==
  IF mapHas(m, k)
  THEN [i \in DOMAIN m |-> IF m[i].name = k THEN [name |-> k, skill |-> v] ELSE m[i]]
  ELSE Append(m, [name |-> k, skill |-> v])

\* Map.prototype.delete
mapDelete(m, k) == SelectSeq(m, LAMBDA e : e.name # k)

\* A mutant: every listed skill is appended, a repeated name is kept twice.
RECURSIVE buildMapNoDedupe(_)
buildMapNoDedupe(list) ==
  IF list = <<>> THEN <<>>
  ELSE Append(buildMapNoDedupe(SubSeq(list, 1, Len(list) - 1)),
              [name |-> list[Len(list)].name, skill |-> list[Len(list)]])

\* verify.ts:149-152
RECURSIVE buildInstalledMap(_)
buildInstalledMap(list) ==
  IF list = <<>> THEN <<>>
  ELSE mapSet(buildInstalledMap(SubSeq(list, 1, Len(list) - 1)),
              list[Len(list)].name, list[Len(list)])

(***************************************************************************)
(* verifySkills, verify.ts:117-267.                                        *)
(***************************************************************************)
ZeroCounts ==
  [ok |-> 0, modified |-> 0, missing |-> 0, untracked |-> 0, invalid |-> 0,
   brokenSymlinks |-> 0]

Inc(c, field) == [c EXCEPT ![field] = @ + 1]

\* JavaScript truthiness of an optional string
Truthy(x) == x # undefined /\ x # ""

\* A mutant: the agent filter is not applied to the detected agents.
filterAgentsIgnored(detected, filter) == detected

\* verify.ts:156-158
filterAgents(detected, filter) ==
  IF filter.given THEN SelectSeq(detected, LAMBDA a : a \in Range(filter.list))
  ELSE detected


\* A mutant: the recorded hash is compared in global scope too.
classifyHashAlways(c, global, computedHash, canonicalPath) ==
  LET actual == folderHash[canonicalPath]
  IN IF actual = "throw"
     THEN [status |-> "invalid", expectedHash |-> computedHash,
           actualHash |-> undefined, counts |-> Inc(c, "invalid")]
     ELSE IF Truthy(computedHash) /\ actual # computedHash
     THEN [status |-> "modified", expectedHash |-> computedHash,
           actualHash |-> actual, counts |-> Inc(c, "modified")]
     ELSE [status |-> "ok", expectedHash |-> computedHash,
           actualHash |-> actual, counts |-> Inc(c, "ok")]

\* A mutant: the catch block forgets counts.invalid++.
classifyHashNoCount(c, global, computedHash, canonicalPath) ==
  IF global
  THEN [status |-> "ok", expectedHash |-> undefined, actualHash |-> undefined,
        counts |-> Inc(c, "ok")]
  ELSE LET actual == folderHash[canonicalPath]
       IN IF actual = "throw"
          THEN [status |-> "invalid", expectedHash |-> computedHash,
                actualHash |-> undefined, counts |-> c]
          ELSE IF Truthy(computedHash) /\ actual # computedHash
          THEN [status |-> "modified", expectedHash |-> computedHash,
                actualHash |-> actual, counts |-> Inc(c, "modified")]
          ELSE [status |-> "ok", expectedHash |-> computedHash,
                actualHash |-> actual, counts |-> Inc(c, "ok")]

\* verify.ts:196-220: status, expectedHash, actualHash and the counter bumped.
classifyHash(c, global, computedHash, canonicalPath) ==
  IF global
  THEN [status |-> "ok", expectedHash |-> undefined, actualHash |-> undefined,
        counts |-> Inc(c, "ok")]
  ELSE LET actual == folderHash[canonicalPath]
       IN IF actual = "throw"
          THEN [status |-> "invalid", expectedHash |-> computedHash,
                actualHash |-> undefined, counts |-> Inc(c, "invalid")]
          ELSE IF Truthy(computedHash) /\ actual # computedHash
          THEN [status |-> "modified", expectedHash |-> computedHash,
                actualHash |-> actual, counts |-> Inc(c, "modified")]
          ELSE [status |-> "ok", expectedHash |-> computedHash,
                actualHash |-> actual, counts |-> Inc(c, "ok")]

\* A mutant: a failing hash computation drops the skill instead of reporting it.
lockIterationDropOnThrow(st, entry, global, toCheck) ==
  IF ~mapHas(st.installedMap, entry.name)
  THEN [st EXCEPT
          !.results = Append(@, [name |-> entry.name, path |-> <<>>,
                                 status |-> "missing", expectedHash |-> undefined,
                                 actualHash |-> undefined, agents |-> <<>>,
                                 brokenSymlinks |-> <<>>,
                                 error |-> "Skill in lock file but not found on disk"]),
          !.counts = Inc(@, "missing")]
  ELSE LET installed == mapGet(st.installedMap, entry.name)
           rest == mapDelete(st.installedMap, entry.name)
       IN IF ~skillMd[installed.canonicalPath]
          THEN [results |-> Append(st.results,
                    [name |-> entry.name, path |-> installed.canonicalPath,
                     status |-> "invalid", expectedHash |-> undefined,
                     actualHash |-> undefined, agents |-> installed.agents,
                     brokenSymlinks |-> <<>>,
                     error |-> "SKILL.md is missing or invalid"]),
                counts |-> Inc(st.counts, "invalid"),
                installedMap |-> rest]
          ELSE LET h == classifyHash(st.counts, global, entry.computedHash,
                                     installed.canonicalPath)
                   brokenSymlinks == checkSymlinkIntegrity(entry.name,
                                        installed.canonicalPath, toCheck, global)
               IN IF h.status = "invalid"
                  THEN [results |-> st.results, counts |-> st.counts,
                        installedMap |-> rest]
                  ELSE [results |-> Append(st.results,
                           [name |-> entry.name, path |-> installed.canonicalPath,
                            status |-> h.status, expectedHash |-> h.expectedHash,
                            actualHash |-> h.actualHash, agents |-> installed.agents,
                            brokenSymlinks |-> brokenSymlinks, error |-> undefined]),
                        counts |-> [h.counts EXCEPT
                                      !.brokenSymlinks = @ + Len(brokenSymlinks)],
                        installedMap |-> rest]

\* One iteration of the loop over the lock entries, verify.ts:161-240, on the
\* loop's state st = [results, counts, installedMap].
lockIteration(st, entry, global, toCheck) ==
  IF ~mapHas(st.installedMap, entry.name)
  THEN [st EXCEPT
          !.results = Append(@, [name |-> entry.name, path |-> <<>>,
                                 status |-> "missing", expectedHash |-> undefined,
                                 actualHash |-> undefined, agents |-> <<>>,
                                 brokenSymlinks |-> <<>>,
                                 error |-> "Skill in lock file but not found on disk"]),
          !.counts = Inc(@, "missing")]
  ELSE LET installed == mapGet(st.installedMap, entry.name)
           rest == mapDelete(st.installedMap, entry.name)
       IN IF ~skillMd[installed.canonicalPath]
          THEN [results |-> Append(st.results,
                    [name |-> entry.name, path |-> installed.canonicalPath,
                     status |-> "invalid", expectedHash |-> undefined,
                     actualHash |-> undefined, agents |-> installed.agents,
                     brokenSymlinks |-> <<>>,
                     error |-> "SKILL.md is missing or invalid"]),
                counts |-> Inc(st.counts, "invalid"),
                installedMap |-> rest]
          ELSE LET h == classifyHash(st.counts, global, entry.computedHash,
                                     installed.canonicalPath)
                   brokenSymlinks == checkSymlinkIntegrity(entry.name,
                                        installed.canonicalPath, toCheck, global)
               IN [results |-> Append(st.results,
                      [name |-> entry.name, path |-> installed.canonicalPath,
                       status |-> h.status, expectedHash |-> h.expectedHash,
                       actualHash |-> h.actualHash, agents |-> installed.agents,
                       brokenSymlinks |-> brokenSymlinks, error |-> undefined]),
                   counts |-> [h.counts EXCEPT
                                 !.brokenSymlinks = @ + Len(brokenSymlinks)],
                   installedMap |-> rest]

\* One iteration of the loop over what is left in the map, verify.ts:243-261.
untrackedIteration(st, e, global, toCheck) ==
  LET brokenSymlinks == checkSymlinkIntegrity(e.name, e.skill.canonicalPath,
                                              toCheck, global)
  IN [st EXCEPT
        !.results = Append(@, [name |-> e.name, path |-> e.skill.canonicalPath,
                               status |-> "untracked", expectedHash |-> undefined,
                               actualHash |-> undefined, agents |-> e.skill.agents,
                               brokenSymlinks |-> brokenSymlinks,
                               error |-> "Skill on disk but not in lock file"]),
        !.counts = [Inc(@, "untracked") EXCEPT
                      !.brokenSymlinks = @ + Len(brokenSymlinks)]]

\* String.prototype.localeCompare on the names of the pool: the collation
\* order is a < A < b < B
CollRank(n) == CASE n = "a" -> 1 [] n = "A" -> 2 [] n = "b" -> 3 [] n = "B" -> 4

\* the UTF-16 code unit of a name, for the comparison operators < and >
CodeUnit(n) == CASE n = "A" -> 65 [] n = "B" -> 66 [] n = "a" -> 97 [] n = "b" -> 98

localeCompare(x, y) ==
  IF CollRank(x) < CollRank(y) THEN -1
  ELSE IF CollRank(x) > CollRank(y) THEN 1 ELSE 0

\* A mutant: names compared by code unit.
compareByCodeUnit(a, b) ==
  IF CodeUnit(a.name) < CodeUnit(b.name) THEN -1
  ELSE IF CodeUnit(a.name) > CodeUnit(b.name) THEN 1 ELSE 0

\* the comparator of verify.ts:264
compareResults(a, b) == localeCompare(a.name, b.name)

\* Array.prototype.sort is stable: an element goes behind the ones it equals
RECURSIVE insertSorted(_, _)
insertSorted(r, s) ==
  IF s = <<>> THEN <<r>>
  ELSE IF compareResults(r, Head(s)) < 0 THEN <<r>> \o s
  ELSE <<Head(s)>> \o insertSorted(r, Tail(s))

\* A mutant: the results are returned in the order they were pushed.
sortResultsSkipped(s) == s

RECURSIVE sortResults(_)
sortResults(s) ==
  IF s = <<>> THEN <<>>
  ELSE insertSorted(s[Len(s)], sortResults(SubSeq(s, 1, Len(s) - 1)))

\* the `scope` of verify.ts:124
scopeOf(global) == IF global THEN "global" ELSE "project"

\* A mutant: untracked skills count as an issue, as formatStandardOutput has it.
hasIssuesWithUntracked(c) ==
  c.modified > 0 \/ c.missing > 0 \/ c.untracked > 0 \/ c.invalid > 0
    \/ c.brokenSymlinks > 0

\* verify.ts:477-481
hasIssues(c) ==
  c.modified > 0 \/ c.missing > 0 \/ c.invalid > 0 \/ c.brokenSymlinks > 0


(***************************************************************************)
(* The inputs of a run: the lock file, the skills on disk, the agents' link *)
(* directories, the command line.                                           *)
(***************************************************************************)
NoList == [given |-> FALSE, list |-> <<>>]

Given(l) == [given |-> TRUE, list |-> l]

\* What detectInstalledAgents returns and what --agent names.
AgentConfigs ==
  { [detected |-> <<"A">>, opt |-> NoList],
    [detected |-> <<"U", "A", "B">>, opt |-> NoList],
    [detected |-> <<"B", "A">>, opt |-> Given(<<"A">>)],
    [detected |-> <<"A">>, opt |-> Given(<<"B">>)],
    [detected |-> <<"A">>, opt |-> Given(<<"A", "bogus">>)] }

\* One skill name's situation. lock: "none" or the entry's computedHash
\* (undefined in the global lock, whose entries have none); disk: "none",
\* "badmd" (SKILL.md does not parse) or what the folder hash yields;
\* linkA: agent A's entry for the skill.
SkillConfigs(global) ==
  IF global
  THEN [lock : {"none", undefined}, disk : {"none"}, linkA : {"absent"}]
       \cup [lock : {"none", undefined}, disk : {"badmd", "h1"}, linkA : {"good", "bad"}]
  ELSE [lock : {"none", "h1"}, disk : {"none"}, linkA : {"absent"}]
       \cup [lock : {"none", "h1"}, disk : {"badmd"}, linkA : {"good", "bad"}]
       \cup [lock : {"none"}, disk : {"h1"}, linkA : {"good", "bad"}]
       \cup [lock : {"", "h1"}, disk : {"h1", "h2", "throw"}, linkA : {"good", "bad"}]

canonicalPathOf(global, n) == join(getCanonicalSkillsDir(global, cwd), n)

\* a second folder of the store whose SKILL.md also names the skill NamePool[1]
altPath(global) == join(getCanonicalSkillsDir(global, cwd), "copy")

goodTarget(n) == [abs |-> FALSE, segs |-> <<"..", "..", ".agents", "skills", n>>]

badTarget(n) == [abs |-> TRUE, segs |-> <<"other", n>>]

NameSeq(S) == SelectSeq(SubSeq(NamePool, 1, MaxNames), LAMBDA n : n \in S)

Ordered(s, rev) == IF rev THEN Reverse(s) ELSE s

lockEntriesOf(cfg, rev) ==
  LET ns == Ordered(NameSeq({n \in Names : cfg[n].lock # "none"}), rev)
  IN [i \in DOMAIN ns |-> [name |-> ns[i], computedHash |-> cfg[ns[i]].lock]]

installedOf(cfg, global, rev, dup) ==
  LET ns == Ordered(NameSeq({n \in Names : cfg[n].disk # "none"}), rev)
      prim == [i \in DOMAIN ns |->
                 [name |-> ns[i], canonicalPath |-> canonicalPathOf(global, ns[i]),
                  agents |-> <<"A">>]]
  IN IF dup
     THEN Append(prim, [name |-> NamePool[1], canonicalPath |-> altPath(global),
                        agents |-> <<>>])
     ELSE prim

skillMdOf(cfg, global) ==
  [p \in {canonicalPathOf(global, n) : n \in Names} \cup {altPath(global)} |->
     IF p = altPath(global) THEN TRUE
     ELSE \E n \in Names : p = canonicalPathOf(global, n) /\ cfg[n].disk \notin {"none", "badmd"}]

folderHashOf(cfg, global) ==
  [p \in {canonicalPathOf(global, n) : n \in Names} \cup {altPath(global)} |->
     IF p = altPath(global) THEN "h2"
     ELSE LET n == CHOOSE m \in Names : p = canonicalPathOf(global, m)
          IN IF cfg[n].disk \in {"h1", "h2", "throw"} THEN cfg[n].disk ELSE "throw"]

linkPath(a, global, n) == join(getAgentBaseDir(a, global, cwd), n)

fsOf(cfg, global) ==
  [p \in {linkPath(a, global, n) : a \in Agents, n \in Names} |->
     LET n == p[Len(p)]
     IN IF p = linkPath("U", global, n)
        THEN (IF cfg[n].disk = "none" THEN Absent ELSE Dir)
        ELSE IF p = linkPath("A", global, n)
        THEN (IF cfg[n].linkA = "good" THEN Symlink(goodTarget(n))
              ELSE IF cfg[n].linkA = "bad" THEN Symlink(badTarget(n))
              ELSE Absent)
        ELSE (IF cfg[n].disk = "none" THEN Absent ELSE Symlink(badTarget(n)))]

NoArgs == [skillName |-> "", canonicalPath |-> <<>>, agentsToCheck |-> <<>>,
           global |-> FALSE]

Init ==
  /\ pc = "runVerify"
  /\ optGlobal \in BOOLEAN
  /\ \E ac \in AgentConfigs, rl \in BOOLEAN, ri \in BOOLEAN, dup \in BOOLEAN :
       \E cfg \in [Names -> SkillConfigs(optGlobal)] :
         /\ optAgent = ac.opt
         /\ detectedAgents = ac.detected
         /\ lockEntries = lockEntriesOf(cfg, rl)
         /\ installedSkills = installedOf(cfg, optGlobal, ri, dup)
         /\ skillMd = skillMdOf(cfg, optGlobal)
         /\ folderHash = folderHashOf(cfg, optGlobal)
         /\ fs = fsOf(cfg, optGlobal)
  /\ agentFilter = NoList
  /\ agentsToCheck = <<>>
  /\ installedMap = <<>>
  /\ lockIdx = 0
  /\ untrackedIdx = 0
  /\ results = <<>>
  /\ counts = ZeroCounts
  /\ exitCode = 0
  /\ symArgs = NoArgs
  /\ symResult = <<>>

(***************************************************************************)
(* runVerify, verify.ts:429-486, and the steps of verifySkills.            *)
(***************************************************************************)
\* verify.ts:437
invalidAgents(opt) == SelectSeq(opt.list, LAMBDA a : a \notin Range(validAgents))

\* verify.ts:429-446: the agent filter is validated; an unknown agent ends the
\* process with code 1 before anything is verified.
RunVerifyStart ==
  /\ pc = "runVerify"
  /\ IF optAgent.given /\ Len(optAgent.list) > 0
     THEN IF Len(invalidAgents(optAgent)) > 0
          THEN /\ pc' = "exitedInvalidAgents"
               /\ exitCode' = 1
               /\ agentFilter' = agentFilter
          ELSE /\ pc' = "verifySkills"
               /\ agentFilter' = optAgent
               /\ exitCode' = exitCode
     ELSE /\ pc' = "verifySkills"
          /\ agentFilter' = NoList
          /\ exitCode' = exitCode
  /\ UNCHANGED <<envVars, agentsToCheck, installedMap, lockIdx, untrackedIdx,
                 results, counts, symArgs, symResult>>

\* verify.ts:122-158
VerifyStart ==
  /\ pc = "verifySkills"
  /\ pc' = "loops"
  /\ results' = <<>>
  /\ counts' = ZeroCounts
  /\ installedMap' = buildInstalledMap(installedSkills)
  /\ agentsToCheck' = filterAgents(detectedAgents, agentFilter)
  /\ lockIdx' = 0
  /\ untrackedIdx' = 0
  /\ UNCHANGED <<envVars, agentFilter, exitCode, symArgs, symResult>>

loopState == [results |-> results, counts |-> counts, installedMap |-> installedMap]

\* verify.ts:161-240, one lock entry
LockStep ==
  /\ pc = "loops"
  /\ lockIdx < Len(lockEntries)
  /\ LET st == lockIteration(loopState, lockEntries[lockIdx + 1], optGlobal,
                             agentsToCheck)
     IN /\ results' = st.results
        /\ counts' = st.counts
        /\ installedMap' = st.installedMap
        /\ fs' = fsAfterCheck(fs, st.results[Len(st.results)].brokenSymlinks)
  /\ lockIdx' = lockIdx + 1
  /\ UNCHANGED <<pc, inputVars, agentFilter, agentsToCheck, untrackedIdx, exitCode,
                 symArgs, symResult>>

\* verify.ts:243-261, one entry left in the map
UntrackedStep ==
  /\ pc = "loops"
  /\ lockIdx = Len(lockEntries)
  /\ untrackedIdx < Len(installedMap)
  /\ LET st == untrackedIteration(loopState, installedMap[untrackedIdx + 1],
                                  optGlobal, agentsToCheck)
     IN /\ results' = st.results
        /\ counts' = st.counts
        /\ fs' = fsAfterCheck(fs, st.results[Len(st.results)].brokenSymlinks)
  /\ untrackedIdx' = untrackedIdx + 1
  /\ UNCHANGED <<pc, inputVars, agentFilter, agentsToCheck, installedMap, lockIdx,
                 exitCode, symArgs, symResult>>

\* verify.ts:263-266: the sort and the return of {scope, results, counts}
SortAndReturn ==
  /\ pc = "loops"
  /\ lockIdx = Len(lockEntries)
  /\ untrackedIdx = Len(installedMap)
  /\ results' = sortResults(results)
  /\ pc' = "returned"
  /\ UNCHANGED <<envVars, agentFilter, agentsToCheck, installedMap, lockIdx,
                 untrackedIdx, counts, exitCode, symArgs, symResult>>

\* the summary verifySkills returned
summary == [scope |-> scopeOf(optGlobal), results |-> results, counts |-> counts]

\* verify.ts:476-486: process.exit(1) on issues, a normal end (code 0) otherwise
RunVerifyExit ==
  /\ pc = "returned"
  /\ pc' = "exited"
  /\ exitCode' = IF hasIssues(summary.counts) THEN 1 ELSE 0
  /\ UNCHANGED <<envVars, agentFilter, agentsToCheck, installedMap, lockIdx,
                 untrackedIdx, results, counts, symArgs, symResult>>

Next ==
  \/ RunVerifyStart
  \/ VerifyStart
  \/ LockStep
  \/ UntrackedStep
  \/ SortAndReturn
  \/ RunVerifyExit

Spec == Init /\ [][Next]_vars


(***************************************************************************)
(* checkSymlinkIntegrity called on its own, over a richer set of link      *)
(* states than a whole run needs.                                           *)
(***************************************************************************)
\* lists of distinct agents
AgentLists ==
  {<<>>} \cup {<<a>> : a \in Agents}
    \cup {l \in {<<a, b>> : a \in Agents, b \in Agents} : l[1] # l[2]}
    \cup {<<"U", "A", "B">>, <<"B", "A", "U">>}

\* the entries an agent's link path can hold for skill n
LinkEntries(global, n) ==
  { Absent, Dir, File,
    Symlink(goodTarget(n)),
    Symlink([abs |-> TRUE, segs |-> canonicalPathOf(global, n)]),
    Symlink([abs |-> TRUE,
             segs |-> getCanonicalSkillsDir(global, cwd) \o <<"x", "..", n>>]),
    Symlink([abs |-> FALSE, segs |-> <<".agents", "skills", n>>]),
    Symlink(badTarget(n)) }

SymInit ==
  /\ pc = "symCall"
  /\ \E n \in Names, g \in BOOLEAN, l \in AgentLists :
       /\ \E cp \in {canonicalPathOf(g, n), altPath(g)} :
            symArgs = [skillName |-> n, canonicalPath |-> cp, agentsToCheck |-> l,
                       global |-> g]
       /\ fs \in [{linkPath(a, g, n) : a \in Agents} -> LinkEntries(g, n)]
  /\ symResult = <<>>
  /\ optGlobal = FALSE
  /\ optAgent = NoList
  /\ detectedAgents = <<>>
  /\ lockEntries = <<>>
  /\ installedSkills = <<>>
  /\ skillMd = <<>>
  /\ folderHash = <<>>
  /\ agentFilter = NoList
  /\ agentsToCheck = <<>>
  /\ installedMap = <<>>
  /\ lockIdx = 0
  /\ untrackedIdx = 0
  /\ results = <<>>
  /\ counts = ZeroCounts
  /\ exitCode = 0

\* verify.ts:80-115, the whole call
SymCall ==
  /\ pc = "symCall"
  /\ symResult' = checkSymlinkIntegrity(symArgs.skillName, symArgs.canonicalPath,
                                        symArgs.agentsToCheck, symArgs.global)
  /\ pc' = "symDone"
  /\ fs' = fsAfterCheck(fs, symResult')
  /\ UNCHANGED <<inputVars, agentFilter, agentsToCheck, installedMap, lockIdx,
                 untrackedIdx, results, counts, exitCode, symArgs>>

SymNext == SymCall

SpecSym == SymInit /\ [][SymNext]_vars

(***************************************************************************)
(* verifySkills as a function of its inputs: the two loops and the sort    *)
(* applied to a lock and a list of installed skills.                        *)
(***************************************************************************)
RECURSIVE lockPass(_, _, _, _)
lockPass(st, entries, global, toCheck) ==
  IF entries = <<>> THEN st
  ELSE lockPass(lockIteration(st, Head(entries), global, toCheck), Tail(entries),
                global, toCheck)

RECURSIVE untrackedPass(_, _, _, _)
untrackedPass(st, left, global, toCheck) ==
  IF left = <<>> THEN st
  ELSE untrackedPass(untrackedIteration(st, Head(left), global, toCheck), Tail(left),
                     global, toCheck)

verifySkillsOf(entries, installed, global, toCheck) ==
  LET s0 == [results |-> <<>>, counts |-> ZeroCounts,
             installedMap |-> buildInstalledMap(installed)]
      s1 == lockPass(s0, entries, global, toCheck)
      s2 == untrackedPass(s1, s1.installedMap, global, toCheck)
  IN [scope |-> scopeOf(global), results |-> sortResults(s2.results),
      counts |-> s2.counts]

(***************************************************************************)
(* Vocabulary of the properties.                                           *)
(***************************************************************************)
LockNames == {lockEntries[i].name : i \in DOMAIN lockEntries}

InstalledNames == {installedSkills[i].name : i \in DOMAIN installedSkills}

ResultNames == {results[i].name : i \in DOMAIN results}

\* the installed skill verifySkills works with for name n: the last one listed
InstalledAs(n) ==
  installedSkills[CHOOSE i \in DOMAIN installedSkills :
      /\ installedSkills[i].name = n
      /\ \A j \in DOMAIN installedSkills : installedSkills[j].name = n => j <= i]

LockEntryOf(n) == lockEntries[CHOOSE i \in DOMAIN lockEntries : lockEntries[i].name = n]

ResultsOf(rs, n) == SelectSeq(rs, LAMBDA r : r.name = n)

CountStatus(rs, s) == Cardinality({i \in DOMAIN rs : rs[i].status = s})

RECURSIVE TotalBroken(_)
TotalBroken(rs) ==
  IF rs = <<>> THEN 0 ELSE Len(Head(rs).brokenSymlinks) + TotalBroken(Tail(rs))

\* the names whose fingerprint computation is reached and throws
HashFailures ==
  {n \in LockNames \cap InstalledNames :
     /\ ~optGlobal
     /\ skillMd[InstalledAs(n).canonicalPath]
     /\ folderHash[InstalledAs(n).canonicalPath] = "throw"}

\* the names whose fingerprint is computed and compared
HashCompared ==
  {n \in LockNames \cap InstalledNames :
     /\ ~optGlobal
     /\ skillMd[InstalledAs(n).canonicalPath]
     /\ folderHash[InstalledAs(n).canonicalPath] # "throw"}


(***************************************************************************)
(* Properties.                                                             *)
(***************************************************************************)

\* C1: the results verifySkills returns hold exactly one VerifyResult for each
\* distinct name of the union of the lock entry names and the installed skill
\* names (a name listed twice among the installed skills included), and none
\* for any other name.
C1_OneResultPerName ==
  pc = "returned" =>
    /\ ResultNames = LockNames \cup InstalledNames
    /\ \A n \in LockNames \cup InstalledNames : Len(ResultsOf(results, n)) = 1

\* C1 witness: a run has returned in which a name is listed twice among the
\* installed skills and another name is in the lock.
C1_Witness ==
  /\ pc = "returned"
  /\ \E i, j \in DOMAIN installedSkills :
       i < j /\ installedSkills[i].name = installedSkills[j].name
  /\ Len(results) >= 2
  /\ LockNames # {}

\* C2: in the returned summary each status count equals the number of results
\* with that status, counts.brokenSymlinks equals the number of brokenSymlinks
\* entries over all results, and the status counts sum to results.length.
C2_CountsAreTally ==
  pc = "returned" =>
    /\ \A s \in {"ok", "modified", "missing", "untracked", "invalid"} :
         summary.counts[s] = CountStatus(summary.results, s)
    /\ summary.counts.brokenSymlinks = TotalBroken(summary.results)
    /\ summary.counts.ok + summary.counts.modified + summary.counts.missing
         + summary.counts.untracked + summary.counts.invalid = Len(summary.results)

\* C2 witness: a returned summary with a result made invalid by a failing hash
\* computation and with broken links counted.
C2_Witness ==
  /\ pc = "returned"
  /\ HashFailures # {}
  /\ counts.invalid >= 1
  /\ counts.brokenSymlinks >= 1

\* C3: the statuses that need no hash comparison follow the table: locked and
\* not installed is 'missing'; installed and not locked is 'untracked'; both,
\* with a SKILL.md that does not parse, is 'invalid' in either scope; both,
\* parseable, in global scope is 'ok' with expectedHash and actualHash absent.
C3_StatusTable ==
  pc = "returned" =>
    \A i \in DOMAIN results :
      LET r == results[i]
          n == r.name
      IN /\ (n \in LockNames /\ n \notin InstalledNames) => r.status = "missing"
         /\ (n \notin LockNames /\ n \in InstalledNames) => r.status = "untracked"
         /\ (n \in LockNames /\ n \in InstalledNames
               /\ ~skillMd[InstalledAs(n).canonicalPath]) => r.status = "invalid"
         /\ (n \in LockNames /\ n \in InstalledNames
               /\ skillMd[InstalledAs(n).canonicalPath] /\ optGlobal)
              => /\ r.status = "ok"
                 /\ r.expectedHash = undefined
                 /\ r.actualHash = undefined

\* C3 witness: a global-scope run has returned an 'ok' result for a locked,
\* installed, parseable skill, next to a result of another status.
C3_Witness ==
  /\ pc = "returned"
  /\ optGlobal
  /\ \E i, j \in DOMAIN results :
       /\ results[i].status = "ok"
       /\ results[j].status \in {"missing", "untracked", "invalid"}

\* C4: in project scope a locked, installed, parseable skill whose fingerprint
\* computation succeeds is 'modified' exactly when the recomputed fingerprint
\* differs from the lock's computedHash and 'ok' exactly when they are equal,
\* whatever computedHash holds; expectedHash and actualHash carry the two.
C4_ModifiedIffHashDiffers ==
  pc = "returned" =>
    \A n \in HashCompared :
      \A i \in DOMAIN results :
        results[i].name = n =>
          LET r == results[i]
              expected == LockEntryOf(n).computedHash
              actual == folderHash[InstalledAs(n).canonicalPath]
          IN /\ (r.status = "modified") <=> (actual # expected)
             /\ (r.status = "ok") <=> (actual = expected)
             /\ r.expectedHash = expected
             /\ r.actualHash = actual

\* C5: every result of a skill present on disk (ok, modified, invalid or
\* untracked) carries what checkSymlinkIntegrity returns for its canonical path
\* and the agents to check, and counts.brokenSymlinks is the total of those.
C5_BrokenSymlinksForEveryPresentSkill ==
  pc = "returned" =>
    /\ \A i \in DOMAIN results :
         results[i].status # "missing" =>
           results[i].brokenSymlinks =
             checkSymlinkIntegrity(results[i].name, results[i].path,
                                   agentsToCheck, optGlobal)
    /\ counts.brokenSymlinks = TotalBroken(results)

\* C6: when the fingerprint computation throws for a skill, that skill's result
\* is 'invalid', the run still returns, and every other name has exactly the
\* result it has in the run from which the failing skill is absent.
C6_HashFailureIsLocal ==
  pc = "returned" =>
    \A f \in HashFailures :
      LET without ==
            verifySkillsOf(SelectSeq(lockEntries, LAMBDA e : e.name # f),
                           SelectSeq(installedSkills, LAMBDA k : k.name # f),
                           optGlobal, agentsToCheck)
      IN /\ Len(ResultsOf(results, f)) = 1
         /\ ResultsOf(results, f)[1].status = "invalid"
         /\ \A n \in (Names \ {f}) :
              ResultsOf(results, n) = ResultsOf(without.results, n)

\* C6 witness: a run has returned with a skill whose hash computation threw
\* listed before and after results of other skills, or next to an untracked one.
C6_Witness ==
  /\ pc = "returned"
  /\ \E f \in HashFailures :
       \E i \in DOMAIN lockEntries :
         /\ lockEntries[i].name = f
         /\ i < Len(lockEntries)
         /\ Len(results) >= 2

\* C7: every result that is 'invalid' because the fingerprint computation
\* failed carries an error message.
C7_HashFailureHasError ==
  pc = "returned" =>
    \A f \in HashFailures :
      \A i \in DOMAIN results :
        results[i].name = f => results[i].error # undefined

\* C8: the returned results are in ascending order of name under the name
\* comparison, whatever order the lock entries and installed skills came in.
C8_SortedByName ==
  pc = "returned" =>
    \A i, j \in DOMAIN results :
      i < j => localeCompare(results[i].name, results[j].name) <= 0

\* C8 witness: an untracked result, pushed by the second loop, stands before a
\* result of the first loop in the returned list.
C8_Witness ==
  /\ pc = "returned"
  /\ \E i, j \in DOMAIN results :
       /\ i < j
       /\ results[i].status = "untracked"
       /\ results[j].status # "untracked"

\* C9: checkSymlinkIntegrity returns exactly one {agent, link: baseDir/skillName}
\* for each agent to check whose base directory is not the canonical store and
\* whose link path is a symbolic link that resolves, from the link's directory,
\* to something other than canonicalPath; nothing for any other agent.
C9_BrokenLinksExactly ==
  pc = "symDone" =>
    \A a \in Agents :
      LET baseDir == getAgentBaseDir(a, symArgs.global, cwd)
          link == join(baseDir, symArgs.skillName)
          entry == lstat(link)
          broken ==
            /\ a \in Range(symArgs.agentsToCheck)
            /\ baseDir # getCanonicalSkillsDir(symArgs.global, cwd)
            /\ entry.kind = "symlink"
            /\ resolve(dirname(link), entry.target) # symArgs.canonicalPath
          found == SelectSeq(symResult, LAMBDA b : b.agent = a)
      IN /\ Len(found) = (IF broken THEN 1 ELSE 0)
         /\ \A i \in DOMAIN found : found[i].link = link

\* C9 witness: a call has returned a broken link while the agent of the
\* canonical store, whose own entry is a stray symbolic link, and an agent with
\* a plain directory were among the agents to check.
C9_Witness ==
  /\ pc = "symDone"
  /\ Len(symResult) = 1
  /\ Len(symArgs.agentsToCheck) = 3
  /\ lstat(linkPath("U", symArgs.global, symArgs.skillName))
       = Symlink(badTarget(symArgs.skillName))
  /\ \E a \in {"A", "B"} :
       lstat(linkPath(a, symArgs.global, symArgs.skillName)) = Dir

Reorderings(s) ==
  {[i \in DOMAIN s |-> s[f[i]]] :
     f \in {g \in [DOMAIN s -> DOMAIN s] : \A i, j \in DOMAIN s : g[i] = g[j] => i = j}}

\* the summary of a run that gets the lock entries, installed skills and
\* detected agents as the lists le, is and da
secondRun(le, is, da) ==
  verifySkillsOf(le, is, optGlobal, filterAgents(da, agentFilter))

\* no name is listed twice among the installed skills
InstalledNamesDistinct ==
  \A i, j \in DOMAIN installedSkills :
    installedSkills[i].name = installedSkills[j].name => i = j

\* no two different names are equal under the name comparison
NamesCollateApart ==
  \A m, n \in LockNames \cup InstalledNames : localeCompare(m, n) = 0 => m = n

\* C11: a second run with the same scope and agent filter over the same lock
\* contents, installed skills, detected agents and link state returns a summary
\* identical to the first, also when the lock entries, the installed skills or
\* the detected agents are enumerated in another order.
C11_SameSummaryAnyOrder ==
  pc = "returned" =>
    \A le \in Reorderings(lockEntries) :
      \A is \in Reorderings(installedSkills) :
        \A da \in Reorderings(detectedAgents) :
          secondRun(le, is, da) = summary

\* C11 as amended: the second run's summary is identical whatever the order of
\* the lock entries and of the installed skills, when the detected agents come
\* in the same order, no name is installed twice and no two names compare equal.
C11_SameSummaryAnyLockAndSkillOrder ==
  (pc = "returned" /\ InstalledNamesDistinct /\ NamesCollateApart) =>
    \A le \in Reorderings(lockEntries) :
      \A is \in Reorderings(installedSkills) :
        secondRun(le, is, detectedAgents) = summary

\* C11 witness: a run has returned results of both loops, with broken links,
\* for a lock and an installed list that each can be enumerated in two orders.
C11_Witness ==
  /\ pc = "returned"
  /\ InstalledNamesDistinct
  /\ Len(lockEntries) >= 2
  /\ Len(installedSkills) >= 2
  /\ counts.brokenSymlinks >= 1
  /\ \E i \in DOMAIN results : results[i].status = "missing" \/ results[i].status = "ok"


\* C12: no step of a verification run changes the lock record, the installed
\* skills and their content in the canonical store, or any agent's link or
\* copy: the steps that find a modified skill or a broken link included.
C12_ReadOnly ==
  [][/\ lockEntries' = lockEntries
     /\ installedSkills' = installedSkills
     /\ skillMd' = skillMd
     /\ folderHash' = folderHash
     /\ fs' = fs]_vars

\* C12 witness: a run has returned having found a modified skill and a broken
\* link, and the broken link it reported is still what the agent's directory
\* holds.
C12_Witness ==
  /\ pc = "returned"
  /\ counts.modified >= 1
  /\ \E i \in DOMAIN results :
       /\ results[i].status = "modified"
       /\ Len(results[i].brokenSymlinks) >= 1
       /\ lstat(results[i].brokenSymlinks[1].link).kind = "symlink"


\* C13: every BrokenSymlink of every result names a detected agent that is
\* also in the agent filter when one is given, a result holds at most one
\* BrokenSymlink per agent, and counts.brokenSymlinks counts just those: a
\* broken link of an undetected or filtered-out agent is not reported or counted.
C13_OnlyCheckedAgentsReported ==
  pc = "returned" =>
    /\ \A i \in DOMAIN results :
         LET bs == results[i].brokenSymlinks
         IN /\ \A k \in DOMAIN bs :
                 /\ bs[k].agent \in Range(detectedAgents)
                 /\ agentFilter.given => bs[k].agent \in Range(agentFilter.list)
            /\ \A k, l \in DOMAIN bs : bs[k].agent = bs[l].agent => k = l
    /\ counts.brokenSymlinks =
         Cardinality({<<i, a>> \in (DOMAIN results) \X Agents :
                        /\ a \in Range(detectedAgents)
                        /\ agentFilter.given => a \in Range(agentFilter.list)
                        /\ \E k \in DOMAIN results[i].brokenSymlinks :
                             results[i].brokenSymlinks[k].agent = a})

\* C13 witness: a run with an agent filter has returned a result that reports
\* agent A's broken link and not the broken link that detected, filtered-out
\* agent B holds for the same skill.
C13_Witness ==
  /\ pc = "returned"
  /\ agentFilter.given
  /\ "B" \in Range(detectedAgents)
  /\ "B" \notin Range(agentFilter.list)
  /\ \E i \in DOMAIN results :
       /\ Len(results[i].brokenSymlinks) = 1
       /\ results[i].brokenSymlinks[1].agent = "A"
       /\ lstat(linkPath("B", optGlobal, results[i].name))
            = Symlink(badTarget(results[i].name))
       /\ counts.brokenSymlinks = TotalBroken(results)

====
